---- MODULE Spec2Model ----
(***************************************************************************)
(* A model of api/web_hook/wiki_data_processor.py: the extraction of the   *)
(* <wiki_structure> block from an AI response, its parsing into title,     *)
(* description and pages, the cleaning of page content, and the writing of *)
(* the llms.txt report.                                                    *)
(*                                                                         *)
(* Text is a sequence of symbols.  A symbol is a string that stands for    *)
(* one character ("a", " ", "\n", "<", ...) or for a run of characters     *)
(* that the regular expressions of the code only ever match as a whole     *)
(* (a markup tag of the wiki vocabulary, a fence of three backticks,       *)
(* a word such as "details" or "mermaid").                                 *)
(***************************************************************************)
EXTENDS Integers, Sequences, FiniteSets, TLC

VARIABLES
    rawText,     \* extract_wiki_structure_xml: the argument wiki_structure_response
    doc,         \* the document rawText was encoded from (NoDoc for free text)
    xpc,         \* position of the extract/parse pipeline
    extracted,   \* outcome of extract_wiki_structure_xml
    parsed,      \* outcome of parse_wiki_structure
    content,     \* clean_and_format_content: the argument
    cpc,         \* how often the content was cleaned so far
    cleaned,     \* clean_and_format_content(content)
    recleaned,   \* clean_and_format_content(cleaned)
    data,        \* generate_llms_txt: per call, the argument data, in iteration order
    filename,    \* generate_llms_txt: per call, the argument filename
    wpc,         \* per call, where generate_llms_txt stands
    idx,         \* per call, the entry of data the loop of line 134 is at
    buf,         \* per call, what f.write has put in the file object's buffer
    pos,         \* per call, the file position of the file object
    discarded,   \* per call, the content of the file that open(filepath, "w") dropped
    handle,      \* per call, the file object f of line 133: none, open or closed
    exc,         \* per call, the exception raised inside the try block ("" for none)
    logged,      \* per call, what the call has logged at its end
    outcome,     \* per call, running, returned or raised
    files,       \* the files of repo_wiki_generations, by name
    dirExists,   \* whether repo_wiki_generations exists
    wiki_structure,   \* export_wiki_python: the argument wiki_structure
    generated_pages,  \* export_wiki_python: the argument generated_pages
    export_format,    \* export_wiki_python: the argument export_format
    epc,              \* where export_wiki_python stands
    pages_to_export,  \* the list built by the loop of line 67
    api_response,     \* response: the answer of the export API to the POST of line 102
    save_path,        \* the local save_path of line 131
    blob_data,        \* what response.read() returned
    caught,           \* the exception raised inside the export ([kind, msg])
    result,           \* what the call returned: the tuple (error_message, file_path)
    downloads,        \* the files of the downloads directory, by save path
    downloadsExists   \* whether the downloads directory exists

xmlVars == <<rawText, doc, xpc, extracted, parsed>>

cleanVars == <<content, cpc, cleaned, recleaned>>

writerVars == <<data, filename, wpc, idx, buf, pos, discarded, handle, exc, logged, outcome, files, dirExists>>

exportVars == <<wiki_structure, generated_pages, export_format, epc, pages_to_export,
                api_response, save_path, blob_data, caught, result, downloads, downloadsExists>>

vars == <<rawText, doc, xpc, extracted, parsed, content, cpc, cleaned, recleaned,
          data, filename, wpc, idx, buf, pos, discarded, handle, exc, logged, outcome, files,
          dirExists,
          wiki_structure, generated_pages, export_format, epc, pages_to_export,
          api_response, save_path, blob_data, caught, result, downloads, downloadsExists>>

(***************************************************************************)
(* Bounds of the model.                                                    *)
(***************************************************************************)
MaxRaw == 4      \* longest free-text response, in symbols
MaxPages == 2    \* most page nodes of an encoded document
MaxPieces == 3   \* most pieces of markup and text a content string is made of
MaxEntries == 2  \* most entries of the data a call of generate_llms_txt is given

(***************************************************************************)
(* Symbols and general text helpers.                                       *)
(***************************************************************************)
StartMarker == "<wiki_structure>"
EndMarker == "</wiki_structure>"
Fence == "FENCE"    \* three backticks
Soh == "U+0001"      \* a C0 control character the code removes
Del == "U+007F"      \* DEL

\* Python's \s and str.strip(): the whitespace of the model's alphabet.
Whitespace == {" ", "\n", "\t", "\r"}

\* The class [\x00-\x08\x0B\x0C\x0E-\x1F\x7F] of line 54, on the model's alphabet.
RemovedControl == {Soh, Del}

\* The C0 control range U+0000..U+001F and DEL, on the model's alphabet.
C0OrDel == {Soh, Del, "\t", "\n", "\r"}

IsBlank(s) == \A i \in 1..Len(s) : s[i] \in Whitespace

Drop(s, n) == SubSeq(s, n + 1, Len(s))

Take(s, n) == SubSeq(s, 1, n)

Without(s, set) == SelectSeq(s, LAMBDA c : c \notin set)

\* The smallest member of a nonempty set of integers.
Min(S) == CHOOSE m \in S : \A n \in S : m <= n

RECURSIVE Flatten(_)
Flatten(ss) == IF ss = <<>> THEN <<>> ELSE Head(ss) \o Flatten(Tail(ss))

\* Length of the run of whitespace that starts at position i of s.
RECURSIVE WsRun(_, _)
WsRun(s, i) == IF i <= Len(s) /\ s[i] \in Whitespace THEN 1 + WsRun(s, i + 1) ELSE 0

(***************************************************************************)
(* extract_wiki_structure_xml                                              *)
(***************************************************************************)
\* Line 41, re.sub of a leading fence, an optional xml tag ("xml" stands for the
\* tag in any case) and the whitespace after them.
StripLeadingFence(s) ==
    IF Len(s) >= 1 /\ s[1] = Fence
    THEN LET k == IF Len(s) >= 2 /\ s[2] = "xml" THEN 2 ELSE 1
         IN Drop(s, k + WsRun(s, k + 1))
    ELSE s

\* Line 42, re.sub of a fence at the end: the leftmost fence that only whitespace
\* follows, and that whitespace.
StripTrailingFence(s) ==
    LET at == {i \in 1..Len(s) : s[i] = Fence /\ IsBlank(Drop(s, i))}
    IN IF at = {} THEN s ELSE Take(s, Min(at) - 1)

\* The search of line 44 with a greedy quantifier: the region runs to the last end
\* marker.
SearchStructure_Greedy(s) ==
    LET starts == {i \in 1..Len(s) :
                     s[i] = StartMarker /\ \E j \in (i + 1)..Len(s) : s[j] = EndMarker}
    IN IF starts = {} THEN <<0, 0>>
       ELSE LET i == Min(starts)
            IN <<i, CHOOSE j \in (i + 1)..Len(s) :
                        /\ s[j] = EndMarker
                        /\ \A k \in (j + 1)..Len(s) : s[k] # EndMarker>>

\* re.search(r"<wiki_structure>[\s\S]*?</wiki_structure>", s): the leftmost start
\* marker that an end marker follows, up to the nearest end marker after it.
\* <<from, to>> of the match, or <<0, 0>>.
SearchStructure(s) ==
    LET starts == {i \in 1..Len(s) :
                     s[i] = StartMarker /\ \E j \in (i + 1)..Len(s) : s[j] = EndMarker}
    IN IF starts = {} THEN <<0, 0>>
       ELSE LET i == Min(starts)
            IN <<i, Min({j \in (i + 1)..Len(s) : s[j] = EndMarker})>>

\* re.sub(r'[\x00-\x08\x0B\x0C\x0E-\x1F\x7F]', '', xml_match)
RemoveControl(s) == Without(s, RemovedControl)

EmptyMessage == "Wiki structure response is empty"
NoXmlMessage == "No valid XML structure found in AI response"

Raised(kind, msg) == [ok |-> FALSE, kind |-> kind, msg |-> msg, value |-> <<>>]

Returned(v) == [ok |-> TRUE, kind |-> "", msg |-> "", value |-> v]

\* The test of line 36 without the strip().
ResponseIsEmpty_NoStrip(response) == response = <<>>

\* Line 36: not response or str(response).strip() == "".
ResponseIsEmpty(response) == response = <<>> \/ IsBlank(response)

extract_wiki_structure_xml(response) ==
    IF ResponseIsEmpty(response)
    THEN Raised("ValueError", EmptyMessage)
    ELSE LET s == StripTrailingFence(StripLeadingFence(response))
             m == SearchStructure(s)
         IN IF m = <<0, 0>>
            THEN Raised("ValueError", NoXmlMessage)
            ELSE Returned(RemoveControl(SubSeq(s, m[1], m[2])))

(***************************************************************************)
(* xml.etree.ElementTree as parse_wiki_structure uses it.  A tag of the    *)
(* wiki vocabulary is one symbol; every other symbol is character data.    *)
(***************************************************************************)
TagNames == {"wiki_structure", "title", "description", "pages", "page",
             "importance", "file_path", "related"}

PageIdValues == {"p1", "p2"}

NoAttr == "(no id attribute)"

OpenSym(n) == "<" \o n \o ">"

CloseSym(n) == "</" \o n \o ">"

PageOpenSym(id) == "<page id=\"" \o id \o "\">"

OpenSyms == {OpenSym(n) : n \in TagNames} \cup {PageOpenSym(id) : id \in PageIdValues}

CloseSyms == {CloseSym(n) : n \in TagNames}

\* The element name of a tag symbol.
TagName(sym) ==
    IF sym \in {PageOpenSym(id) : id \in PageIdValues} THEN "page"
    ELSE CHOOSE n \in TagNames : sym \in {OpenSym(n), CloseSym(n)}

\* The id attribute a start tag carries.
IdAttr(sym) ==
    IF sym \in {PageOpenSym(id) : id \in PageIdValues}
    THEN CHOOSE id \in PageIdValues : sym = PageOpenSym(id)
    ELSE NoAttr

\* The parser's state: the elements in document order (each with its tag, its id
\* attribute, its text, that is the character data before its first child, and the
\* index of its parent), and the stack of open elements, innermost first.
ParserStart == [ok |-> TRUE, nodes |-> <<>>, stack |-> <<>>]

ParserStep(st, sym) ==
    IF ~st.ok THEN st
    ELSE IF sym \in OpenSyms
    THEN IF st.stack = <<>> /\ st.nodes # <<>>
         THEN [st EXCEPT !.ok = FALSE]             \* junk after document element
         ELSE LET parent == IF st.stack = <<>> THEN 0 ELSE Head(st.stack)
                  sealed == IF parent = 0 THEN st.nodes
                            ELSE [st.nodes EXCEPT ![parent].open = FALSE]
                  node == [tag |-> TagName(sym), id |-> IdAttr(sym), text |-> <<>>,
                           parent |-> parent, open |-> TRUE]
              IN [ok |-> TRUE, nodes |-> Append(sealed, node),
                  stack |-> <<Len(st.nodes) + 1>> \o st.stack]
    ELSE IF sym \in CloseSyms
    THEN IF st.stack = <<>> \/ st.nodes[Head(st.stack)].tag # TagName(sym)
         THEN [st EXCEPT !.ok = FALSE]             \* mismatched tag
         ELSE [ok |-> TRUE,
               nodes |-> [st.nodes EXCEPT ![Head(st.stack)].open = FALSE],
               stack |-> Tail(st.stack)]
    ELSE IF st.stack = <<>>
    THEN IF sym \in Whitespace THEN st
         ELSE [st EXCEPT !.ok = FALSE]             \* text outside the root
    ELSE LET top == Head(st.stack)
         IN IF st.nodes[top].open
            THEN [st EXCEPT !.nodes[top].text = Append(@, sym)]
            ELSE st                                \* tail text: not read by the code

RECURSIVE ParserRun(_, _, _)
ParserRun(st, s, i) ==
    IF i > Len(s) THEN st
    ELSE LET next == ParserStep(st, s[i])
         IN IF next.ok THEN ParserRun(next, s, i + 1) ELSE next

\* ET.fromstring: the elements, or a ParseError.
fromstring(xml_text) ==
    LET st == ParserRun(ParserStart, xml_text, 1)
    IN IF st.ok /\ st.stack = <<>> /\ st.nodes # <<>>
       THEN [ok |-> TRUE, nodes |-> st.nodes]
       ELSE [ok |-> FALSE, nodes |-> <<>>]

\* Element.findtext(tag, default): the text of the first child named tag.
findtext(nodes, n, tag, default) ==
    LET kids == {i \in 1..Len(nodes) : nodes[i].parent = n /\ nodes[i].tag = tag}
    IN IF kids = {} THEN default ELSE nodes[Min(kids)].text

RECURSIVE IsDescendant(_, _, _)
IsDescendant(nodes, i, n) ==
    /\ nodes[i].parent # 0
    /\ \/ nodes[i].parent = n
       \/ IsDescendant(nodes, nodes[i].parent, n)

\* findall with the path 'tag' in place of './/tag': the children of n only.
RECURSIVE findall_ChildrenOnly(_, _, _, _)
findall_ChildrenOnly(nodes, n, tag, from) ==
    IF from > Len(nodes) THEN <<>>
    ELSE (IF nodes[from].tag = tag /\ nodes[from].parent = n
          THEN <<from>> ELSE <<>>) \o findall_ChildrenOnly(nodes, n, tag, from + 1)

\* Element.findall('.//tag'): the descendants named tag, in document order.
RECURSIVE findall(_, _, _, _)
findall(nodes, n, tag, from) ==
    IF from > Len(nodes) THEN <<>>
    ELSE (IF nodes[from].tag = tag /\ IsDescendant(nodes, from, n)
          THEN <<from>> ELSE <<>>) \o findall(nodes, n, tag, from + 1)

\* [el.text for el in page_el.findall('.//tag') if el.text]
NonEmptyTexts(nodes, n, tag) ==
    LET els == findall(nodes, n, tag, 1)
    IN SelectSeq([k \in 1..Len(els) |-> nodes[els[k]].text], LAMBDA t : t # <<>>)

ImportanceDefault == <<"medium">>

\* The dict built for one page element (lines 76-83).
PageDict(nodes, n) ==
    [id |-> IF nodes[n].id = NoAttr THEN "" ELSE nodes[n].id,
     title |-> findtext(nodes, n, "title", <<>>),
     description |-> findtext(nodes, n, "description", <<>>),
     importance |-> findtext(nodes, n, "importance", ImportanceDefault),
     file_paths |-> NonEmptyTexts(nodes, n, "file_path"),
     related_pages |-> NonEmptyTexts(nodes, n, "related")]

parse_wiki_structure(xml_text) ==
    LET tree == fromstring(xml_text)
    IN IF ~tree.ok THEN Raised("ParseError", "not well-formed")
       ELSE LET nodes == tree.nodes
                els == findall(nodes, 1, "page", 1)
            IN Returned([title |-> findtext(nodes, 1, "title", <<>>),
                         description |-> findtext(nodes, 1, "description", <<>>),
                         pages |-> [k \in 1..Len(els) |-> PageDict(nodes, els[k])]])

(***************************************************************************)
(* clean_and_format_content.  The symbols of content: the characters       *)
(* "<", ">", "!", "[", "]", "(", ")", " ", "\n", "a", "b", the backtick,   *)
(* and the words "details", "/details", "Sources: " (for Source: and       *)
(* Sources: in any case), "http://" (for http:// and https://) and         *)
(* "mermaid".                                                              *)
(***************************************************************************)
Backtick == "BACKTICK"

\* The symbols of p stand in s from position i on.
At(s, i, p) == i + Len(p) - 1 <= Len(s) /\ SubSeq(s, i, i + Len(p) - 1) = p

\* No line break in s[from..to]: what the regular expression . matches.
NoLineBreak(s, from, to) == \A k \in from..to : s[k] # "\n"

DetailsOpen == <<"<", "details", ">">>
DetailsClose == <<"<", "/details", ">">>
TripleBacktick == <<Backtick, Backtick, Backtick>>
MermaidOpen == TripleBacktick \o <<"mermaid">>

\* Line 101, <details>.*?</details> with DOTALL: the last position of the match
\* that starts at i, or 0.
DetailsEnd(s, i) ==
    IF ~At(s, i, DetailsOpen) THEN 0
    ELSE LET js == {j \in (i + 3)..Len(s) : At(s, j, DetailsClose)}
         IN IF js = {} THEN 0 ELSE Min(js) + 2

\* Line 102, a backtick, Sources?: , [ [^\]]*? ] ( [^)]*? ) and a backtick.
SourcesEnd(s, i) ==
    IF ~At(s, i, <<Backtick, "Sources: ", "[">>) THEN 0
    ELSE LET js == {j \in (i + 3)..Len(s) : s[j] = "]"}
         IN IF js = {} \/ ~At(s, Min(js), <<"]", "(">>) THEN 0
            ELSE LET ks == {k \in (Min(js) + 2)..Len(s) : s[k] = ")"}
                 IN IF ks = {} \/ ~At(s, Min(ks), <<")", Backtick>>) THEN 0
                    ELSE Min(ks) + 1

\* The positions k of a ) that closes ( .*? ) opened at position j - 1.
ClosersAfter(s, j) == {k \in j..Len(s) : s[k] = ")" /\ NoLineBreak(s, j, k - 1)}

\* Line 103, !\[.*?\]\(.*?\): the first ]( on the line that a ) follows on the line.
ImageEnd(s, i) ==
    IF ~At(s, i, <<"!", "[">>) THEN 0
    ELSE LET js == {j \in (i + 2)..Len(s) :
                      /\ At(s, j, <<"]", "(">>)
                      /\ NoLineBreak(s, i + 2, j - 1)
                      /\ ClosersAfter(s, j + 2) # {}}
         IN IF js = {} THEN 0 ELSE Min(ClosersAfter(s, Min(js) + 2))

\* The position of the ) that ends (https?://[^\s)]+\) opened at position j, or 0.
UrlEnd(s, j) ==
    IF ~At(s, j, <<"(", "http://">>) THEN 0
    ELSE LET stops == {r \in (j + 2)..Len(s) : s[r] \in Whitespace \cup {")"}}
         IN IF stops = {} THEN 0
            ELSE LET r == Min(stops)
                 IN IF r > j + 2 /\ s[r] = ")" THEN r ELSE 0

\* Line 104, \[(.*?)\]\(https?://[^\s)]+\): the position of the ] of the match
\* that starts at i, or 0.
LinkLabelEnd(s, i) ==
    IF i > Len(s) \/ s[i] # "[" THEN 0
    ELSE LET js == {j \in (i + 1)..Len(s) :
                      /\ s[j] = "]"
                      /\ NoLineBreak(s, i + 1, j - 1)
                      /\ UrlEnd(s, j + 1) # 0}
         IN IF js = {} THEN 0 ELSE Min(js)

LinkEnd(s, i) == IF LinkLabelEnd(s, i) = 0 THEN 0 ELSE UrlEnd(s, LinkLabelEnd(s, i) + 1)

\* Line 105, <[^>]*>.
TagEnd(s, i) ==
    IF s[i] # "<" THEN 0
    ELSE LET js == {j \in (i + 1)..Len(s) : s[j] = ">"}
         IN IF js = {} THEN 0 ELSE Min(js)

\* Line 106, three backticks, mermaid, .*? and three backticks, with DOTALL.
MermaidEnd(s, i) ==
    IF ~At(s, i, MermaidOpen) THEN 0
    ELSE LET js == {j \in (i + 4)..Len(s) : At(s, j, TripleBacktick)}
         IN IF js = {} THEN 0 ELSE Min(js) + 2

\* Line 109, \s+.
SpacesEnd(s, i) == IF s[i] \in Whitespace THEN i + WsRun(s, i) - 1 ELSE 0

\* Line 112, \n\s*\n: a line break, and the whitespace after it up to its last
\* line break.
BlankLinesEnd(s, i) ==
    IF s[i] # "\n" THEN 0
    ELSE LET js == {j \in (i + 1)..(i + WsRun(s, i + 1)) : s[j] = "\n"}
         IN IF js = {} THEN 0 ELSE CHOOSE j \in js : \A k \in js : k <= j

\* The last position of the match of a step's pattern that starts at i, or 0.
MatchEnd(step, s, i) ==
    CASE step = "details" -> DetailsEnd(s, i)
      [] step = "sources" -> SourcesEnd(s, i)
      [] step = "image" -> ImageEnd(s, i)
      [] step = "link" -> LinkEnd(s, i)
      [] step = "tag" -> TagEnd(s, i)
      [] step = "mermaid" -> MermaidEnd(s, i)
      [] step = "spaces" -> SpacesEnd(s, i)
      [] step = "blanklines" -> BlankLinesEnd(s, i)

\* What a step puts in the place of the match s[i..e].
Replacement(step, s, i, e) ==
    CASE step = "link" -> SubSeq(s, i + 1, LinkLabelEnd(s, i) - 1)
      [] step = "spaces" -> <<" ">>
      [] step = "blanklines" -> <<"\n", "\n">>
      [] OTHER -> <<>>

\* re.sub of a step's pattern: the matches from left to right, none overlapping.
RECURSIVE SubFrom(_, _, _)
SubFrom(step, s, i) ==
    IF i > Len(s) THEN <<>>
    ELSE LET e == MatchEnd(step, s, i)
         IN IF e = 0 THEN <<s[i]>> \o SubFrom(step, s, i + 1)
            ELSE Replacement(step, s, i, e) \o SubFrom(step, s, e + 1)

Sub(step, s) == SubFrom(step, s, 1)

\* str.strip()
RECURSIVE TrailingWs(_)
TrailingWs(s) ==
    IF s # <<>> /\ s[Len(s)] \in Whitespace THEN 1 + TrailingWs(Take(s, Len(s) - 1)) ELSE 0

Strip(s) == IF IsBlank(s) THEN <<>> ELSE SubSeq(s, WsRun(s, 1) + 1, Len(s) - TrailingWs(s))

\* Lines 101-106 without the substitution of line 105.
RemoveMarkup_NoTag(s) ==
    Sub("mermaid", Sub("link", Sub("image", Sub("sources", Sub("details", s)))))

\* Lines 101-106: the markup steps, in the order of the code.
RemoveMarkup(s) ==
    Sub("mermaid", Sub("tag", Sub("link", Sub("image", Sub("sources", Sub("details", s))))))

\* Lines 109-112.
NormalizeSpace(s) == Strip(Sub("blanklines", Sub("spaces", s)))

clean_and_format_content(s) == NormalizeSpace(RemoveMarkup(s))

(***************************************************************************)
(* generate_llms_txt: the values of a page's dict, and the section the     *)
(* loop body (lines 135-154) writes for one entry.  A Python value is a    *)
(* record of its type and its content; a string is a sequence of           *)
(* characters, so that len() is Len().                                     *)
(***************************************************************************)
Str(cs) == [t |-> "str", v |-> cs]
NoneValue == [t |-> "none", v |-> <<>>]
List(xs) == [t |-> "list", v |-> xs]

\* A key of a dict: given with a value, or missing.
Given(val) == [has |-> TRUE, val |-> val]
Missing == [has |-> FALSE, val |-> NoneValue]

\* dict.get(key, default)
Get(field, default) == IF field.has THEN field.val ELSE default

LowerLetters == <<"a", "b", "f", "g", "h", "i", "p", "q", "r">>
UpperLetters == <<"A", "B", "F", "G", "H", "I", "P", "Q", "R">>

IndexIn(seq, c) == CHOOSE k \in 1..Len(seq) : seq[k] = c

IsLetter(c) == \E k \in 1..Len(LowerLetters) : c \in {LowerLetters[k], UpperLetters[k]}

Upper(c) ==
    IF \E k \in 1..Len(LowerLetters) : c = LowerLetters[k]
    THEN UpperLetters[IndexIn(LowerLetters, c)] ELSE c

Lower(c) ==
    IF \E k \in 1..Len(UpperLetters) : c = UpperLetters[k]
    THEN LowerLetters[IndexIn(UpperLetters, c)] ELSE c

\* str.capitalize()
Capitalize(cs) == [k \in 1..Len(cs) |-> IF k = 1 THEN Upper(cs[k]) ELSE Lower(cs[k])]

\* str.title()
TitleCase(cs) ==
    [k \in 1..Len(cs) |->
        IF k > 1 /\ IsLetter(cs[k - 1]) THEN Lower(cs[k]) ELSE Upper(cs[k])]

\* page_id.replace('-', ' ').title()
TitleFromId(page_id) ==
    TitleCase([k \in 1..Len(page_id) |-> IF page_id[k] = "-" THEN " " ELSE page_id[k]])

NoneText == <<"N", "o", "n", "e">>

\* str(value), and what an f-string puts for {value}
StrOf(val) == IF val.t = "none" THEN NoneText ELSE val.v

\* ", ".join(xs)
RECURSIVE Join(_)
Join(xs) ==
    IF xs = <<>> THEN <<>>
    ELSE IF Len(xs) = 1 THEN xs[1]
    ELSE xs[1] \o <<",", " ">> \o Join(Tail(xs))

\* Lines 139 and 142: the joined list, or 'None' for what is no list or is empty.
JoinedOrNone(val) == IF val.t = "list" /\ val.v # <<>> THEN Join(val.v) ELSE NoneText

Dashes(n) == [k \in 1..n |-> "-"]

\* The underline of line 147 without the + 2.
Underline_TitleLength(title) == Dashes(Len(title)) \o <<"\n", "\n">>

\* Line 147: the underline of the heading.
Underline(title) == Dashes(Len(title) + 2) \o <<"\n", "\n">>

RuleWidth == 30

\* Lines 135-154 for one entry: the strings handed to f.write, in order, and the
\* exception that ends the loop body early ("" when it runs to its end).
PageWrites(page_id, page) ==
    IF page.kind # "dict"
    THEN [units |-> <<>>, exc |-> "AttributeError"]      \* line 135: no .get
    ELSE LET title == Get(page.title, Str(TitleFromId(page_id)))
             cont == Get(page.content, Str(<<>>))
             importance == Get(page.importance, Str(<<"N", "/", "A">>))
             related_pages == JoinedOrNone(Get(page.relatedPages, List(<<>>)))
             file_paths == JoinedOrNone(Get(page.filePaths, List(<<>>)))
             cleaned_content == clean_and_format_content(StrOf(cont))
             heading == <<"#", " ">> \o StrOf(title) \o <<"\n">>
         IN IF title.t # "str"
            THEN [units |-> <<heading>>, exc |-> "TypeError"]   \* line 147: len(None)
            ELSE [units |->
                     <<heading,
                       Underline(title.v),
                       <<"**ID:** ">> \o StrOf(Get(page.id, Str(page_id))) \o <<"\n">>,
                       <<"**Importance:** ">> \o Capitalize(StrOf(importance)) \o <<"\n">>,
                       <<"**Related Pages:** ">> \o related_pages \o <<"\n">>,
                       <<"**Relevant Files:** ">> \o file_paths \o <<"\n", "\n">>,
                       <<"## Content", "\n">>,
                       cleaned_content \o <<"\n", "\n">>,
                       Dashes(RuleWidth) \o <<"\n", "\n">> >>,
                  exc |-> ""]

\* Line 131 with the default name in place of the argument.
FilePath_Default(name) == "llms.txt"

\* os.path.join(output_dir, filename): the file of repo_wiki_generations written.
FilePath(name) == name

\* A write of units at position at of a file: what lies there is overwritten, and
\* a gap between the end of the file and at reads as zero bytes.
Hole == <<"NUL">>

WriteAt(old, at, units) ==
    LET end == at + Len(units)
        len == IF end > Len(old) THEN end ELSE Len(old)
    IN [k \in 1..len |->
           IF k > at /\ k <= end THEN units[k - at]
           ELSE IF k <= Len(old) THEN old[k] ELSE Hole]

\* The file object closed only when the block ends without an exception.
AfterWith_NormalEndOnly(e) == IF e = "" THEN "closed" ELSE "open"

\* Line 133: the with statement closes the file object at the end of the block,
\* whether the block ends normally or with the exception e.
AfterWith(e) == "closed"

\* Line 133, mode "w": the file exists afterwards and is empty.
OpenedForWriting(file) == [exists |-> TRUE, units |-> <<>>]

\* The handler of lines 156-157 ending with a raise.
HandlerOutcome_Reraise(e) == "raised"

\* Lines 156-157: the handler logs the exception; the call then returns.
HandlerOutcome(e) == "returned"

SuccessLog == "info: Successfully generated"
ErrorLog == "error: Error generating"

(***************************************************************************)
(* The calls of generate_llms_txt, the files they write and the mappings   *)
(* they are given.                                                         *)
(***************************************************************************)
Calls == {1, 2}

DefaultName == "llms.txt"
OtherName == "other.txt"
FileNames == {DefaultName, OtherName}

NoFile == [exists |-> FALSE, units |-> <<>>]
OldFile == [exists |-> TRUE, units |-> << <<"o", "l", "d", "\n">>, <<"o", "l", "d", "\n">> >>]

\* The page dicts of the entries.
FullPage(id) ==
    [kind |-> "dict", title |-> Given(Str(<<"A", "b">>)),
     content |-> Given(Str(<<"a", "<", "b", ">", " ", "\n", "b">>)),
     importance |-> Given(Str(<<"h", "i">>)),
     relatedPages |-> Given(List(<< <<"q">>, <<"r">> >>)),
     filePaths |-> Given(List(<< <<"f">> >>)), id |-> Given(Str(id))]

ShortPage(id) ==
    [kind |-> "dict", title |-> Given(Str(<<"B">>)),
     content |-> Given(Str(<<"b">>)),
     importance |-> Given(Str(<<"a">>)),
     relatedPages |-> Given(List(<<>>)),
     filePaths |-> Given(List(<< <<"f">>, <<"g">> >>)), id |-> Given(Str(id))]

EmptyPage ==
    [kind |-> "dict", title |-> Missing, content |-> Missing, importance |-> Missing,
     relatedPages |-> Missing, filePaths |-> Missing, id |-> Missing]

UntitledPage(id) == [FullPage(id) EXCEPT !.title = Missing]

ListlessPage(id) == [FullPage(id) EXCEPT !.relatedPages = Missing, !.filePaths = Missing]

NoneTitlePage(id) == [FullPage(id) EXCEPT !.title = Given(NoneValue)]

StringListPage(id) == [FullPage(id) EXCEPT !.relatedPages = Given(Str(<<"q">>))]

NotAMapping == [kind |-> "str"]

PageKinds == {"full", "short", "empty", "untitled", "listless", "nonetitle",
              "stringlist", "notamapping"}

PageOfKind(kind, id) ==
    CASE kind = "full" -> FullPage(id)
      [] kind = "short" -> ShortPage(id)
      [] kind = "empty" -> EmptyPage
      [] kind = "untitled" -> UntitledPage(id)
      [] kind = "listless" -> ListlessPage(id)
      [] kind = "nonetitle" -> NoneTitlePage(id)
      [] kind = "stringlist" -> StringListPage(id)
      [] kind = "notamapping" -> NotAMapping

\* The key of the k-th entry of a mapping: the keys of a dict are distinct.
PageIdAt(k) == IF k % 2 = 1 THEN <<"p", "-", ToString(k)>> ELSE <<"q", ToString(k)>>

\* The mappings whose pages are of the given kinds: entry k is PageIdAt(k) and a
\* page of the k-th kind.
DataOf(kinds) ==
    [k \in 1..Len(kinds) |->
        [page_id |-> PageIdAt(k), page |-> PageOfKind(kinds[k], PageIdAt(k))]]

CallStart(c) ==
    /\ wpc[c] = "makedirs"
    /\ idx[c] = 1
    /\ buf[c] = <<>>
    /\ pos[c] = 0
    /\ discarded[c] = <<>>
    /\ handle[c] = "none"
    /\ exc[c] = ""
    /\ logged[c] = ""
    /\ outcome[c] = "running"

CallOff(c) ==
    /\ wpc[c] = "off"
    /\ idx[c] = 1
    /\ buf[c] = <<>>
    /\ pos[c] = 0
    /\ discarded[c] = <<>>
    /\ handle[c] = "none"
    /\ exc[c] = ""
    /\ logged[c] = ""
    /\ outcome[c] = "off"
    /\ data[c] = <<>>
    /\ filename[c] = DefaultName

WriterTypes ==
    /\ wpc \in [Calls -> {"off", "makedirs"}]
    /\ idx \in [Calls -> {1}]
    /\ buf \in [Calls -> {<<>>}]
    /\ pos \in [Calls -> {0}]
    /\ discarded \in [Calls -> {<<>>}]
    /\ handle \in [Calls -> {"none"}]
    /\ exc \in [Calls -> {""}]
    /\ logged \in [Calls -> {""}]
    /\ outcome \in [Calls -> {"off", "running"}]

WriterIdle ==
    /\ WriterTypes
    /\ data = [c \in Calls |-> <<>>]
    /\ filename = [c \in Calls |-> DefaultName]
    /\ \A c \in Calls : CallOff(c)
    /\ files = [n \in FileNames |-> NoFile]
    /\ dirExists = FALSE

(***************************************************************************)
(* export_wiki_python: its arguments, the answer of the export API, the    *)
(* name of the file the answer is saved to, and the tuple the call         *)
(* returns.  A text is a sequence of pieces, the empty text is <<>>.       *)
(***************************************************************************)
\* The repo of the self-test, line 197.
Repo == <<"test_owner", "/", "test_repo">>

\* repo.replace("/", "_")
ReplaceSlash(repo) == [k \in 1..Len(repo) |-> IF repo[k] = "/" THEN "_" ELSE repo[k]]

\* The argument wiki_structure: None, an object without the attribute pages, or
\* a WikiStructure with the pages of the given ids.
NoStructure == [given |-> FALSE, hasPages |-> FALSE, pages |-> <<>>]
NoPagesAttribute == [given |-> TRUE, hasPages |-> FALSE, pages |-> <<>>]
StructureOf(ids) == [given |-> TRUE, hasPages |-> TRUE, pages |-> ids]

Structures ==
    {NoStructure, NoPagesAttribute, StructureOf(<<>>), StructureOf(<<"p1">>),
     StructureOf(<<"p1", "p2">>), StructureOf(<<"", "p3">>)}

\* The argument generated_pages: None, or a dict from page ids to entries; an
\* entry is a dict, with or without the key 'content', or something else.
NoGenerated == [given |-> FALSE, entries |-> <<>>]
Generated(entries) == [given |-> TRUE, entries |-> entries]
ContentEntry == [kind |-> "dict", content |-> Given(Str(<<"generated content">>))]
EmptyEntry == [kind |-> "dict", content |-> Missing]
NotADictEntry == [kind |-> "str", content |-> Missing]

GeneratedChoices ==
    {NoGenerated, Generated(<<>>),
     Generated("p1" :> ContentEntry),
     Generated("p1" :> ContentEntry @@ "p2" :> NotADictEntry),
     Generated("p1" :> EmptyEntry @@ "" :> ContentEntry)}

Formats == {"json", "markdown"}

\* Line 60: the test of the arguments.
InputIsEmpty(ws, gen) ==
    \/ ~ws.given
    \/ ~ws.hasPages
    \/ ws.pages = <<>>
    \/ ~gen.given
    \/ DOMAIN gen.entries = {}

\* Lines 69-77: the content exported for a page.
ContentFor(page_id, gen) ==
    IF page_id # "" /\ page_id \in DOMAIN gen.entries
    THEN IF gen.entries[page_id].kind = "dict"
         THEN Get(gen.entries[page_id].content, Str(<<"Content not generated">>))
         ELSE Str(<<"Content not generated or invalid format">>)
    ELSE Str(<<>>)

\* Lines 66-84: one dict per page of wiki_structure, in order.
PagesToExport(ws, gen) ==
    [k \in 1..Len(ws.pages) |-> [id |-> ws.pages[k], content |-> ContentFor(ws.pages[k], gen)]]

NoContentMessage ==
    <<"No wiki content to export (wiki_structure, pages, or generated_pages is empty)">>
EmptyPagesMessage == <<"Pages list is empty after processing for export.">>
DefaultErrorText == <<"No error details available from API">>

\* Line 113: the message of the exception raised for an error status.
ApiFailedMessage(status, error_text) ==
    <<"Error exporting wiki (API call failed): ", ToString(status), " - ">> \o error_text

\* The Content-Disposition headers of the answers, in tokens: absent, without a
\* file name, with a quoted name, with a bare name, with a name of white space,
\* with an empty name before a quoted one, with an absolute name.
Quote == "\""
NoHeader == <<>>
Dispositions ==
    {NoHeader,
     <<"attachment">>,
     <<"attachment", ";", " ", "filename=", Quote, "a.md", Quote>>,
     <<"attachment", ";", " ", "filename=", "b.json", " ", ";", " ", "size=1">>,
     <<"filename=", " ">>,
     <<"filename=", ";", " ", "filename=", Quote, "a.md", Quote>>,
     <<"filename=", "/", "tmp", "/", "c.json">>}

\* The first closing quote after position i, or 0.
QuoteAfter(h, i) ==
    LET at == {j \in (i + 1)..Len(h) : h[j] = Quote} IN IF at = {} THEN 0 ELSE Min(at)

\* "([^"]+)" right after the filename= at i: the name between the quotes.
QuotedName(h, i) ==
    IF i + 1 <= Len(h) /\ h[i + 1] = Quote /\ QuoteAfter(h, i + 1) > i + 2
    THEN SubSeq(h, i + 2, QuoteAfter(h, i + 1) - 1)
    ELSE <<>>

\* ([^;]+) right after the filename= at i: the tokens up to the next semicolon.
BareName(h, i) ==
    LET stops == {j \in (i + 1)..Len(h) : h[j] = ";"}
    IN SubSeq(h, i + 1, IF stops = {} THEN Len(h) ELSE Min(stops) - 1)

\* re.search(r'filename=(?:"([^"]+)"|([^;]+))', h): group(1) or group(2) of the
\* leftmost match, or <<>> when nothing matches.
ExtractedFilename(h) ==
    LET at == {i \in 1..Len(h) :
                 h[i] = "filename=" /\ (QuotedName(h, i) # <<>> \/ BareName(h, i) # <<>>)}
    IN IF at = {} THEN <<>>
       ELSE IF QuotedName(h, Min(at)) # <<>> THEN QuotedName(h, Min(at))
       ELSE BareName(h, Min(at))

\* Line 116.
FileExt(fmt) == IF fmt = "markdown" THEN "md" ELSE "json"

\* Lines 115-125: the name of the file to save.
FilenameFor(repo, fmt, disposition) ==
    IF disposition # NoHeader /\ ExtractedFilename(disposition) # <<>>
    THEN Strip(ExtractedFilename(disposition))
    ELSE ReplaceSlash(repo) \o <<"_wiki.", FileExt(fmt)>>

\* os.path.join(downloads_dir, filename): an absolute filename replaces the
\* directory.
SavePath(name) ==
    IF name # <<>> /\ name[1] = "/" THEN name ELSE <<"downloads", "/">> \o name

\* os.path.abspath(save_path), the working directory being /cwd.
AbsPath(path) == IF path[1] = "/" THEN path ELSE <<"/cwd", "/">> \o path

\* A path that ends with the separator names a directory: open raises
\* IsADirectoryError.
IsDirectoryPath(path) == path[Len(path)] = "/"

SavePaths == {SavePath(FilenameFor(Repo, fmt, d)) : fmt \in Formats, d \in Dispositions}

\* The answers of the export API: status, Content-Disposition header and body.
Statuses == {200, 400, 500}
Bodies == {<<>>, <<"b1", "b2">>}
NoResponse == [status |-> 0, disposition |-> NoHeader, body |-> <<>>]
Responses == [status : Statuses, disposition : Dispositions, body : Bodies]

\* Line 107: response.ok.
Ok(r) == r.status < 400

NoException == [kind |-> "", msg |-> <<>>]

\* The tuple of a failure with the file path set as well.
Failure_WithPath(message) ==
    [returned |-> TRUE, error |-> Str(message), path |-> Str(<<"downloads", "/">>)]

\* The tuple (error_message, file_path) of lines 63, 89 and 142.
Failure(message) == [returned |-> TRUE, error |-> Str(message), path |-> NoneValue]

\* The tuple (None, os.path.abspath(save_path)) of line 137.
Success(path) == [returned |-> TRUE, error |-> NoneValue, path |-> Str(AbsPath(path))]

NotReturned == [returned |-> FALSE, error |-> NoneValue, path |-> NoneValue]

NoBlob == [exists |-> FALSE, bytes |-> <<>>]
OldBlob == [exists |-> TRUE, bytes |-> <<"old">>]

\* No export is running.
ExportIdle ==
    /\ wiki_structure = NoStructure
    /\ generated_pages = NoGenerated
    /\ export_format = "json"
    /\ epc = "off"
    /\ pages_to_export = <<>>
    /\ api_response = NoResponse
    /\ save_path = <<>>
    /\ blob_data = <<>>
    /\ caught = NoException
    /\ result = NotReturned
    /\ downloads = [p \in SavePaths |-> NoBlob]
    /\ downloadsExists = FALSE

(***************************************************************************)
(* The inputs of the extract/parse pipeline: free text over a small        *)
(* alphabet, and wiki documents written out the way the sample response of *)
(* the module's self-test is (lines 189-204).                              *)
(***************************************************************************)
RawAlphabet == {Fence, "xml", " ", "\n", StartMarker, EndMarker, "a", Soh}

\* All texts over an alphabet of at most n symbols.
RECURSIVE TextsUpTo(_, _)
TextsUpTo(alphabet, n) ==
    IF n = 0 THEN {<<>>}
    ELSE LET shorter == TextsUpTo(alphabet, n - 1)
         IN shorter \cup {Append(t, c) : t \in shorter, c \in alphabet}

\* All sequences over a set of at most n members.
RECURSIVE SeqsUpTo(_, _)
SeqsUpTo(set, n) ==
    IF n = 0 THEN {<<>>}
    ELSE LET shorter == SeqsUpTo(set, n - 1)
         IN shorter \cup {Append(t, c) : t \in shorter, c \in set}

NoDoc == [kind |-> "text"]

\* The texts a page node of a document carries.
PageBodies ==
    {[title |-> <<>>, description |-> <<>>, file_paths |-> <<>>, related |-> <<>>],
     [title |-> <<"a", " ", "b">>, description |-> <<"b">>,
      file_paths |-> << <<"f">>, <<"g">> >>, related |-> <<>>],
     [title |-> <<"b">>, description |-> <<"a">>,
      file_paths |-> << <<"g">> >>, related |-> << <<"p", "2">>, <<"p", "1">> >>],
     [title |-> <<"a">>, description |-> <<>>,
      file_paths |-> <<>>, related |-> << <<"p", "2">> >>]}

\* What a page node of a document carries: its id attribute, if any, the texts of
\* its body, and zero or one importance child (a sequence of zero or one texts).
PageSources ==
    {[id |-> i, importance |-> m, title |-> b.title, description |-> b.description,
      file_paths |-> b.file_paths, related |-> b.related] :
        i \in {NoAttr, "p1"}, m \in {<<>>, << <<>> >>, << <<"high">> >>}, b \in PageBodies}

Layouts == {[pretty |-> FALSE, indent |-> FALSE], [pretty |-> TRUE, indent |-> TRUE]}

Docs ==
    [kind : {"wiki"},
     title : {<<>>, <<"T">>},
     description : {<<"d", "\n", "e">>},
     pages : SeqsUpTo(PageSources, MaxPages),
     layout : Layouts]

Element(tag, text) == <<OpenSym(tag)>> \o text \o <<CloseSym(tag)>>

\* The line break and indentation between two elements of a pretty-printed document.
Gap(layout) == IF layout.pretty THEN <<"\n", " ">> ELSE <<>>

Elements(tag, texts, layout) ==
    Flatten([k \in 1..Len(texts) |-> Element(tag, texts[k]) \o Gap(layout)])

PageXml(p, layout) ==
    <<IF p.id = NoAttr THEN OpenSym("page") ELSE PageOpenSym(p.id)>> \o Gap(layout)
    \o Element("title", p.title) \o Gap(layout)
    \o Element("description", p.description) \o Gap(layout)
    \o Elements("importance", p.importance, layout)
    \o Elements("file_path", p.file_paths, layout)
    \o Elements("related", p.related, layout)
    \o <<CloseSym("page")>>

DocXml(d) ==
    <<StartMarker>> \o Gap(d.layout)
    \o Element("title", d.title) \o Gap(d.layout)
    \o Element("description", d.description) \o Gap(d.layout)
    \o <<OpenSym("pages")>> \o Gap(d.layout)
    \o Flatten([k \in 1..Len(d.pages) |-> PageXml(d.pages[k], d.layout) \o Gap(d.layout)])
    \o <<CloseSym("pages")>> \o Gap(d.layout)
    \o <<EndMarker>>

\* The document in a fenced code block: the fence first, or, as in the self-test's
\* sample, a line break and indentation before it.
Fenced(d) ==
    IF d.layout.indent
    THEN <<"\n", " ", Fence, "xml", "\n", " ">> \o DocXml(d) \o <<"\n", " ", Fence, "\n", " ">>
    ELSE <<Fence, "xml", "\n">> \o DocXml(d) \o <<"\n", Fence>>

(***************************************************************************)
(* The extract/parse pipeline (lines 205-220): extract, then parse what    *)
(* extract returned.                                                       *)
(***************************************************************************)
NotRun == [ok |-> FALSE, kind |-> "", msg |-> "", value |-> <<>>]

XmlStart ==
    /\ xpc = "ready"
    /\ extracted = NotRun
    /\ parsed = NotRun

\* No content is being cleaned.
CleanIdle ==
    /\ content = <<>>
    /\ cpc = "off"
    /\ cleaned = <<>>
    /\ recleaned = <<>>

\* No response is being extracted or parsed.
XmlIdle ==
    /\ rawText = <<>>
    /\ doc = NoDoc
    /\ xpc = "off"
    /\ extracted = NotRun
    /\ parsed = NotRun

InitExtract ==
    /\ rawText \in TextsUpTo(RawAlphabet, MaxRaw)
    /\ doc = NoDoc
    /\ XmlStart
    /\ CleanIdle
    /\ WriterIdle
    /\ ExportIdle

InitParse ==
    /\ doc \in Docs
    /\ rawText = Fenced(doc)
    /\ XmlStart
    /\ CleanIdle
    /\ WriterIdle
    /\ ExportIdle

Extract ==
    /\ xpc = "ready"
    /\ extracted' = extract_wiki_structure_xml(rawText)
    /\ xpc' = IF extracted'.ok THEN "extracted" ELSE "failed"
    /\ UNCHANGED <<rawText, doc, parsed>>
    /\ UNCHANGED <<cleanVars, writerVars, exportVars>>

Parse ==
    /\ xpc = "extracted"
    /\ parsed' = parse_wiki_structure(extracted.value)
    /\ xpc' = IF parsed'.ok THEN "parsed" ELSE "malformed"
    /\ UNCHANGED <<rawText, doc, extracted>>
    /\ UNCHANGED <<cleanVars, writerVars, exportVars>>

NextXml == Extract \/ Parse

SpecExtract == InitExtract /\ [][NextXml]_vars

SpecParse == InitParse /\ [][NextXml]_vars

(***************************************************************************)
(* Cleaning a content string, and cleaning the result again.  A content    *)
(* string is made of pieces: markup the steps of the pipeline look for,    *)
(* fragments of such markup, and plain text.                               *)
(***************************************************************************)
ContentPieces ==
    {DetailsOpen, DetailsClose, MermaidOpen, TripleBacktick,
     <<"<", "b", ">">>, <<"<">>, <<">">>, <<"!">>,
     <<"[", "a", "]", "(", "b", ")">>,
     <<"[", "a", "]", "(", "http://", "b", ")">>,
     <<Backtick, "Sources: ", "[", "a", "]", "(", "b", ")", Backtick>>,
     <<" ">>, <<"\n">>, <<"a">>}

InitClean ==
    /\ content \in {Flatten(ps) : ps \in SeqsUpTo(ContentPieces, MaxPieces)}
    /\ cpc = "dirty"
    /\ cleaned = <<>>
    /\ recleaned = <<>>
    /\ XmlIdle
    /\ WriterIdle
    /\ ExportIdle

Clean ==
    /\ cpc = "dirty"
    /\ cleaned' = clean_and_format_content(content)
    /\ cpc' = "cleaned"
    /\ UNCHANGED <<content, recleaned>>
    /\ UNCHANGED <<xmlVars, writerVars, exportVars>>

CleanAgain ==
    /\ cpc = "cleaned"
    /\ recleaned' = clean_and_format_content(cleaned)
    /\ cpc' = "recleaned"
    /\ UNCHANGED <<content, cleaned>>
    /\ UNCHANGED <<xmlVars, writerVars, exportVars>>

NextClean == Clean \/ CleanAgain

SpecClean == InitClean /\ [][NextClean]_vars

(***************************************************************************)
(* generate_llms_txt as a process: os.makedirs, open, the loop over the    *)
(* entries, the end of the with block and the handler.  The file object    *)
(* buffers what f.write is given; the buffer reaches the file when it is   *)
(* flushed, which may happen between any two entries and happens when the  *)
(* file is closed.  A unit of a file is one string handed to f.write.      *)
(***************************************************************************)
\* One call, of any mapping, to the default file, which may exist already.
InitWrite ==
    /\ WriterTypes
    /\ data \in {[c \in Calls |-> IF c = 1 THEN DataOf(kinds) ELSE <<>>] :
                    kinds \in SeqsUpTo(PageKinds, MaxEntries)}
    /\ filename = [c \in Calls |-> DefaultName]
    /\ CallStart(1)
    /\ CallOff(2)
    /\ dirExists \in BOOLEAN
    /\ files \in {[n \in FileNames |-> IF n = DefaultName /\ dirExists THEN f ELSE NoFile] :
                     f \in {NoFile, OldFile}}
    /\ XmlIdle
    /\ CleanIdle
    /\ ExportIdle

\* Two calls at once, given different mappings, the second to the default file or
\* to another one.
InitConcurrent ==
    /\ WriterTypes
    /\ data \in {[c \in Calls |-> IF c = 1 THEN DataOf(k1) ELSE DataOf(k2)] :
                    k1 \in SeqsUpTo({"full"}, MaxEntries) \ {<<>>},
                    k2 \in SeqsUpTo({"short", "nonetitle"}, MaxEntries) \ {<<>>}}
    /\ filename \in {[c \in Calls |-> IF c = 1 THEN DefaultName ELSE n] : n \in FileNames}
    /\ CallStart(1)
    /\ CallStart(2)
    /\ dirExists = FALSE
    /\ files = [n \in FileNames |-> NoFile]
    /\ XmlIdle
    /\ CleanIdle
    /\ ExportIdle

\* The except clause of line 156: the exception e is logged and the call ends.
Handle(c, e) ==
    /\ exc' = [exc EXCEPT ![c] = e]
    /\ logged' = [logged EXCEPT ![c] = ErrorLog]
    /\ outcome' = [outcome EXCEPT ![c] = HandlerOutcome(e)]
    /\ wpc' = [wpc EXCEPT ![c] = "done"]

\* Line 130: os.makedirs(output_dir, exist_ok=True) succeeds or raises OSError.
MakeDirs(c) ==
    /\ wpc[c] = "makedirs"
    /\ \E ok \in BOOLEAN :
        IF ok
        THEN /\ dirExists' = TRUE
             /\ wpc' = [wpc EXCEPT ![c] = "open"]
             /\ UNCHANGED <<exc, logged, outcome>>
        ELSE /\ Handle(c, "OSError")
             /\ UNCHANGED dirExists
    /\ UNCHANGED <<data, filename, idx, buf, pos, discarded, handle, files>>
    /\ UNCHANGED <<xmlVars, cleanVars, exportVars>>

\* Line 133: open(filepath, "w") creates or truncates the file, or raises OSError.
Open(c) ==
    /\ wpc[c] = "open"
    /\ \E ok \in BOOLEAN :
        IF ok
        THEN /\ files' = [files EXCEPT ![FilePath(filename[c])] = OpenedForWriting(@)]
             /\ discarded' = [discarded EXCEPT ![c] = files[FilePath(filename[c])].units]
             /\ handle' = [handle EXCEPT ![c] = "open"]
             /\ wpc' = [wpc EXCEPT ![c] = "loop"]
             /\ UNCHANGED <<exc, logged, outcome>>
        ELSE /\ Handle(c, "OSError")
             /\ UNCHANGED <<files, discarded, handle>>
    /\ UNCHANGED <<data, filename, idx, buf, pos, dirExists>>
    /\ UNCHANGED <<xmlVars, cleanVars, exportVars>>

\* Lines 134-154 for the entry the loop is at: its strings are buffered; a defect
\* of the entry raises after the strings written before it, and a write that
\* fails raises OSError after those written before it.
WritePage(c) ==
    /\ wpc[c] = "loop"
    /\ idx[c] <= Len(data[c])
    /\ LET w == PageWrites(data[c][idx[c]].page_id, data[c][idx[c]].page)
       IN \E written \in 0..Len(w.units) :
           /\ buf' = [buf EXCEPT ![c] = @ \o Take(w.units, written)]
           /\ IF written = Len(w.units) /\ w.exc = ""
              THEN /\ idx' = [idx EXCEPT ![c] = @ + 1]
                   /\ UNCHANGED <<wpc, exc>>
              ELSE /\ exc' = [exc EXCEPT ![c] =
                                 IF written = Len(w.units) THEN w.exc ELSE "OSError"]
                   /\ wpc' = [wpc EXCEPT ![c] = "exit"]
                   /\ UNCHANGED idx
    /\ UNCHANGED <<data, filename, pos, discarded, handle, logged, outcome, files, dirExists>>
    /\ UNCHANGED <<xmlVars, cleanVars, exportVars>>

\* The buffer is written to the file at the file object's position.
Flush(c) ==
    /\ wpc[c] = "loop"
    /\ buf[c] # <<>>
    /\ files' = [files EXCEPT ![FilePath(filename[c])].units = WriteAt(@, pos[c], buf[c])]
    /\ pos' = [pos EXCEPT ![c] = @ + Len(buf[c])]
    /\ buf' = [buf EXCEPT ![c] = <<>>]
    /\ UNCHANGED <<data, filename, wpc, idx, discarded, handle, exc, logged, outcome,
                   dirExists>>
    /\ UNCHANGED <<xmlVars, cleanVars, exportVars>>

\* The end of the with block, at the end of the loop or on an exception: the file
\* is closed, which flushes the buffer or, when that fails, raises OSError.  Then
\* line 155 logs the success, or the handler takes the exception.
Close(c) ==
    /\ \/ wpc[c] = "loop" /\ idx[c] > Len(data[c])
       \/ wpc[c] = "exit"
    /\ \E ok \in {TRUE} \cup {b \in {FALSE} : buf[c] # <<>>} :
        /\ files' = IF ok
                    THEN [files EXCEPT ![FilePath(filename[c])].units =
                                           WriteAt(@, pos[c], buf[c])]
                    ELSE files
        /\ pos' = [pos EXCEPT ![c] = IF ok THEN @ + Len(buf[c]) ELSE @]
        /\ buf' = [buf EXCEPT ![c] = <<>>]
        /\ handle' = [handle EXCEPT ![c] = AfterWith(IF ok THEN exc[c] ELSE "OSError")]
        /\ IF ok /\ exc[c] = ""
           THEN /\ logged' = [logged EXCEPT ![c] = SuccessLog]
                /\ outcome' = [outcome EXCEPT ![c] = "returned"]
                /\ wpc' = [wpc EXCEPT ![c] = "done"]
                /\ UNCHANGED exc
           ELSE Handle(c, IF ok THEN exc[c] ELSE "OSError")
    /\ UNCHANGED <<data, filename, idx, discarded, dirExists>>
    /\ UNCHANGED <<xmlVars, cleanVars, exportVars>>

NextWriter == \E c \in Calls : MakeDirs(c) \/ Open(c) \/ WritePage(c) \/ Flush(c) \/ Close(c)

SpecWrite == InitWrite /\ [][NextWriter]_vars

SpecConcurrent == InitConcurrent /\ [][NextWriter]_vars

(***************************************************************************)
(* export_wiki_python as a process: the test of the arguments, the         *)
(* payload, the POST, the status of the answer, the body, the downloads    *)
(* directory, the file, and the return.  An exception raised inside the    *)
(* try block is taken by except Exception (line 139); a cancellation at an *)
(* await is a BaseException and leaves the call.                           *)
(***************************************************************************)
InitExport ==
    /\ wiki_structure \in Structures
    /\ generated_pages \in GeneratedChoices
    /\ export_format \in Formats
    /\ epc = "validate"
    /\ pages_to_export = <<>>
    /\ api_response = NoResponse
    /\ save_path = <<>>
    /\ blob_data = <<>>
    /\ caught = NoException
    /\ result = NotReturned
    /\ downloadsExists \in BOOLEAN
    /\ downloads \in {[p \in SavePaths |-> IF downloadsExists /\ ~IsDirectoryPath(p)
                                           THEN b ELSE NoBlob] : b \in {NoBlob, OldBlob}}
    /\ XmlIdle
    /\ CleanIdle
    /\ WriterIdle

\* Lines 139-142: the exception is caught and its str() is returned.
Catch(kind, msg) ==
    /\ caught' = [kind |-> kind, msg |-> msg]
    /\ result' = Failure(msg)
    /\ epc' = "returned"

\* asyncio.CancelledError at an await: no except clause of the function takes it.
Cancelled ==
    /\ caught' = [kind |-> "CancelledError", msg |-> <<>>]
    /\ epc' = "raised"
    /\ UNCHANGED result

\* Lines 60-63.
Validate ==
    /\ epc = "validate"
    /\ IF InputIsEmpty(wiki_structure, generated_pages)
       THEN /\ result' = Failure(NoContentMessage)
            /\ epc' = "returned"
       ELSE /\ epc' = "build"
            /\ UNCHANGED result
    /\ UNCHANGED <<wiki_structure, generated_pages, export_format, pages_to_export,
                   api_response, save_path, blob_data, caught, downloads, downloadsExists>>
    /\ UNCHANGED <<xmlVars, cleanVars, writerVars>>

\* Lines 65-99.
BuildPayload ==
    /\ epc = "build"
    /\ pages_to_export' = PagesToExport(wiki_structure, generated_pages)
    /\ IF pages_to_export' = <<>>
       THEN /\ result' = Failure(EmptyPagesMessage)
            /\ epc' = "returned"
       ELSE /\ epc' = "post"
            /\ UNCHANGED result
    /\ UNCHANGED <<wiki_structure, generated_pages, export_format, api_response, save_path,
                   blob_data, caught, downloads, downloadsExists>>
    /\ UNCHANGED <<xmlVars, cleanVars, writerVars>>

\* Lines 101-106: the API answers, or the request fails with a ClientError, or
\* it times out (asyncio.TimeoutError, whose str() is empty), or the call is
\* cancelled.
Post ==
    /\ epc = "post"
    /\ \/ /\ api_response' \in Responses
          /\ epc' = "status"
          /\ UNCHANGED <<caught, result>>
       \/ /\ Catch("ClientError", <<"Cannot connect to host">>)
          /\ UNCHANGED api_response
       \/ /\ Catch("TimeoutError", <<>>)
          /\ UNCHANGED api_response
       \/ /\ Cancelled
          /\ UNCHANGED api_response
    /\ UNCHANGED <<wiki_structure, generated_pages, export_format, pages_to_export,
                   save_path, blob_data, downloads, downloadsExists>>
    /\ UNCHANGED <<xmlVars, cleanVars, writerVars>>

\* Lines 107-113: for an error status the text of the answer is read, or the
\* default text is kept when that fails, and an Exception is raised.
CheckStatus ==
    /\ epc = "status"
    /\ \/ /\ Ok(api_response)
          /\ epc' = "read"
          /\ UNCHANGED <<caught, result>>
       \/ /\ ~Ok(api_response)
          /\ \E error_text \in {api_response.body, DefaultErrorText} :
                Catch("Exception", ApiFailedMessage(api_response.status, error_text))
       \/ /\ ~Ok(api_response)
          /\ Cancelled
    /\ UNCHANGED <<wiki_structure, generated_pages, export_format, pages_to_export,
                   api_response, save_path, blob_data, downloads, downloadsExists>>
    /\ UNCHANGED <<xmlVars, cleanVars, writerVars>>

\* Line 127: the body is read, or the read fails, or the call is cancelled.
Read ==
    /\ epc = "read"
    /\ \/ /\ blob_data' = api_response.body
          /\ epc' = "makedirs"
          /\ UNCHANGED <<caught, result>>
       \/ /\ Catch("ClientPayloadError", <<"Response payload is not completed">>)
          /\ UNCHANGED blob_data
       \/ /\ Cancelled
          /\ UNCHANGED blob_data
    /\ UNCHANGED <<wiki_structure, generated_pages, export_format, pages_to_export,
                   api_response, save_path, downloads, downloadsExists>>
    /\ UNCHANGED <<xmlVars, cleanVars, writerVars>>

\* Lines 115-125 and 129-131: the directory is made, or os.makedirs raises.
MakeDownloads ==
    /\ epc = "makedirs"
    /\ \/ /\ downloadsExists' = TRUE
          /\ save_path' = SavePath(FilenameFor(Repo, export_format,
                                               api_response.disposition))
          /\ epc' = "open"
          /\ UNCHANGED <<caught, result>>
       \/ /\ Catch("OSError", <<"Permission denied: ", "downloads">>)
          /\ UNCHANGED <<downloadsExists, save_path>>
    /\ UNCHANGED <<wiki_structure, generated_pages, export_format, pages_to_export,
                   api_response, blob_data, downloads>>
    /\ UNCHANGED <<xmlVars, cleanVars, writerVars>>

\* Line 133: open(save_path, 'wb') creates or truncates the file, or raises.
OpenSave ==
    /\ epc = "open"
    /\ \/ /\ ~IsDirectoryPath(save_path)
          /\ downloads' = [downloads EXCEPT ![save_path] = [exists |-> TRUE, bytes |-> <<>>]]
          /\ epc' = "write"
          /\ UNCHANGED <<caught, result>>
       \/ /\ IsDirectoryPath(save_path)
          /\ Catch("IsADirectoryError", <<"Is a directory: ">> \o save_path)
          /\ UNCHANGED downloads
       \/ /\ ~IsDirectoryPath(save_path)
          /\ Catch("OSError", <<"Permission denied: ">> \o save_path)
          /\ UNCHANGED downloads
    /\ UNCHANGED <<wiki_structure, generated_pages, export_format, pages_to_export,
                   api_response, save_path, blob_data, downloadsExists>>
    /\ UNCHANGED <<xmlVars, cleanVars, writerVars>>

\* Line 134 and the end of the with block: all of blob_data reaches the file, or
\* a part of it does and OSError is raised.
WriteSave ==
    /\ epc = "write"
    /\ \E written \in 0..Len(blob_data) :
        /\ downloads' = [downloads EXCEPT ![save_path].bytes = Take(blob_data, written)]
        /\ IF written = Len(blob_data)
           THEN /\ epc' = "saved"
                /\ UNCHANGED <<caught, result>>
           ELSE Catch("OSError", <<"No space left on device">>)
    /\ UNCHANGED <<wiki_structure, generated_pages, export_format, pages_to_export,
                   api_response, save_path, blob_data, downloadsExists>>
    /\ UNCHANGED <<xmlVars, cleanVars, writerVars>>

\* Lines 136-137: the tuple of the success is returned through the ends of the
\* two async with blocks, where the call can still be cancelled.
Return ==
    /\ epc = "saved"
    /\ \/ /\ result' = Success(save_path)
          /\ epc' = "returned"
          /\ UNCHANGED caught
       \/ Cancelled
    /\ UNCHANGED <<wiki_structure, generated_pages, export_format, pages_to_export,
                   api_response, save_path, blob_data, downloads, downloadsExists>>
    /\ UNCHANGED <<xmlVars, cleanVars, writerVars>>

NextExport ==
    \/ Validate
    \/ BuildPayload
    \/ Post
    \/ CheckStatus
    \/ Read
    \/ MakeDownloads
    \/ OpenSave
    \/ WriteSave
    \/ Return

SpecExport == InitExport /\ [][NextExport]_vars

(***************************************************************************)
(* Claims about extract_wiki_structure_xml.                                *)
(***************************************************************************)
\* The text holds a start marker that an end marker follows.
HasRegion(s) ==
    \E i \in 1..Len(s) : s[i] = StartMarker /\ \E j \in (i + 1)..Len(s) : s[j] = EndMarker

\* The region from the first start marker to the nearest end marker after it.
FirstRegion(s) ==
    LET i == Min({k \in 1..Len(s) : s[k] = StartMarker})
    IN SubSeq(s, i, Min({j \in (i + 1)..Len(s) : s[j] = EndMarker}))

ExtractRan == xpc # "ready"

\* C1 as stated: a blank response fails, a non-blank response without a region
\* fails and returns no fragment, and the second failure is of another error
\* kind than the one a blank response raises.
C1_DistinctKinds ==
    ExtractRan =>
        /\ IsBlank(rawText) => ~extracted.ok /\ extracted.value = <<>>
        /\ (~IsBlank(rawText) /\ ~HasRegion(rawText)) =>
               /\ ~extracted.ok /\ extracted.value = <<>>
               /\ extracted.kind # extract_wiki_structure_xml(<<" ">>).kind

\* C1 amended: both failures are a ValueError and return no fragment; a blank
\* response carries the message "Wiki structure response is empty", a non-blank
\* response without a region the message "No valid XML structure found in AI
\* response", and the two messages differ.
C1_DistinctMessages ==
    ExtractRan =>
        /\ IsBlank(rawText) =>
               extracted = [ok |-> FALSE, kind |-> "ValueError",
                            msg |-> EmptyMessage, value |-> <<>>]
        /\ (~IsBlank(rawText) /\ ~HasRegion(rawText)) =>
               extracted = [ok |-> FALSE, kind |-> "ValueError",
                            msg |-> NoXmlMessage, value |-> <<>>]
        /\ EmptyMessage # NoXmlMessage

\* A whitespace-only response of several symbols has failed.
C1_Witness ==
    /\ xpc = "failed"
    /\ Len(rawText) >= 2
    /\ IsBlank(rawText)
    /\ extracted.msg = EmptyMessage

\* C2 as stated: for a non-blank response with a region, extract returns the first
\* region with every C0 control character and DEL removed; the result starts with
\* the start marker, ends with the end marker and holds no control character.
C2_NoControlAtAll ==
    (ExtractRan /\ ~IsBlank(rawText) /\ HasRegion(rawText)) =>
        /\ extracted.ok
        /\ extracted.value = Without(FirstRegion(rawText), C0OrDel)
        /\ Head(extracted.value) = StartMarker
        /\ extracted.value[Len(extracted.value)] = EndMarker
        /\ \A i \in 1..Len(extracted.value) : extracted.value[i] \notin C0OrDel

\* C2 amended: extract returns the first region with the C0 control characters
\* other than tab, line feed and carriage return, and DEL, removed; the result
\* starts with the start marker, ends with the end marker and holds none of the
\* removed characters.  Fences and further regions change nothing.
C2_FirstRegionCleaned ==
    (ExtractRan /\ ~IsBlank(rawText) /\ HasRegion(rawText)) =>
        /\ extracted.ok
        /\ extracted.value = Without(FirstRegion(rawText), RemovedControl)
        /\ Head(extracted.value) = StartMarker
        /\ extracted.value[Len(extracted.value)] = EndMarker
        /\ \A i \in 1..Len(extracted.value) : extracted.value[i] \notin RemovedControl

\* A response with two end markers after the start marker and a control character
\* in the first region was extracted.
C2_Witness ==
    /\ xpc = "extracted"
    /\ Len(SelectSeq(rawText, LAMBDA c : c = EndMarker)) = 2
    /\ Soh \in {FirstRegion(rawText)[i] : i \in 1..Len(FirstRegion(rawText))}
    /\ Len(extracted.value) = 2

(***************************************************************************)
(* Claims about parse_wiki_structure.                                      *)
(***************************************************************************)
\* A page node with an id attribute and a non-empty importance child.
WellFormedPage(p) == p.id # NoAttr /\ p.importance # <<>> /\ p.importance[1] # <<>>

WellFormedDoc(d) == \A k \in 1..Len(d.pages) : WellFormedPage(d.pages[k])

\* The page record a well-formed page node encodes.
EncodedPage(p) ==
    [id |-> p.id, title |-> p.title, description |-> p.description,
     importance |-> p.importance[1], file_paths |-> p.file_paths,
     related_pages |-> p.related]

\* C3: for a well-formed document in a fenced code block, parse(extract(input))
\* is the root title and description and, page by page in document order, the id,
\* title, description, importance, file paths and related page ids the document
\* encodes.
C3_RoundTrip ==
    (doc.kind = "wiki" /\ xpc \notin {"ready", "extracted"} /\ WellFormedDoc(doc)) =>
        /\ xpc = "parsed"
        /\ parsed.value.title = doc.title
        /\ parsed.value.description = doc.description
        /\ Len(parsed.value.pages) = Len(doc.pages)
        /\ \A k \in 1..Len(doc.pages) : parsed.value.pages[k] = EncodedPage(doc.pages[k])

\* A pretty-printed well-formed document of two different pages, one with file
\* paths and no related page, was parsed.
C3_Witness ==
    /\ xpc = "parsed"
    /\ doc.kind = "wiki"
    /\ WellFormedDoc(doc)
    /\ doc.layout.pretty
    /\ Len(doc.pages) = 2
    /\ doc.pages[1] # doc.pages[2]
    /\ Len(doc.pages[1].file_paths) = 2
    /\ doc.pages[1].related = <<>>
    /\ parsed.value.pages[1].related_pages = <<>>

\* C4 as stated: the parsed importance of a page is "medium" when the page node
\* has no importance child and when the child's text is empty, and it is never the
\* empty string.
C4_MediumWhenAbsentOrEmpty ==
    (doc.kind = "wiki" /\ xpc = "parsed") =>
        \A k \in 1..Len(doc.pages) :
            /\ parsed.value.pages[k].importance # <<>>
            /\ (doc.pages[k].importance \in {<<>>, << <<>> >>}) =>
                   parsed.value.pages[k].importance = ImportanceDefault

(***************************************************************************)
(* Claims about clean_and_format_content.                                  *)
(***************************************************************************)
\* C5 as stated: cleaning is idempotent, clean(clean(x)) = clean(x) for every x.
C5_Idempotent == cpc = "recleaned" => recleaned = cleaned

Contains(s, p) == \E i \in 1..Len(s) : At(s, i, p)

\* A < that a > follows somewhere later.
HasTagPattern(s) == \E i \in 1..Len(s) : s[i] = "<" /\ \E j \in (i + 1)..Len(s) : s[j] = ">"

Done(c) == wpc[c] = "done"

\* The file a call was told to write.
FileOf(c) == files[filename[c]].units

\* C7 as stated: when os.makedirs, open or a write fails, the call raises: it does
\* not return normally.
C7_FailureRaised ==
    \A c \in Calls : (Done(c) /\ exc[c] = "OSError") => outcome[c] = "raised"

\* C7 amended: when os.makedirs, open or a write fails, the failure is caught
\* inside generate_llms_txt and logged as an error, no success is logged, and the
\* call returns normally: nothing is raised to the caller.
C7_FailureLoggedAndReturned ==
    \A c \in Calls :
        (Done(c) /\ exc[c] = "OSError") =>
            /\ outcome[c] = "returned"
            /\ logged[c] = ErrorLog

\* A call whose second entry failed to be written is over.
C7_Witness ==
    /\ Done(1)
    /\ exc[1] = "OSError"
    /\ idx[1] = 2
    /\ Len(FileOf(1)) > 0

Count(units, Test(_)) == Len(SelectSeq(units, Test))

IsHeading(u) == Len(u) >= 2 /\ u[1] = "#" /\ u[2] = " "

IsRule(u) == u = Dashes(RuleWidth) \o <<"\n", "\n">>

\* C8 as stated: unless the file system fails, a call does not raise whatever its
\* entries are, and its file holds a whole section, from the heading to the rule
\* that ends it, for every entry of the mapping.
C8_DefectIsolated ==
    \A c \in Calls :
        (Done(c) /\ exc[c] # "OSError") =>
            /\ outcome[c] = "returned"
            /\ Count(FileOf(c), IsHeading) = Len(data[c])
            /\ Count(FileOf(c), IsRule) = Len(data[c])

\* A page dict with all six keys, each of the type the loop body expects.
WellFormedEntry(e) ==
    /\ e.page.kind = "dict"
    /\ \A key \in {"title", "content", "importance", "id"} :
           e.page[key].has /\ e.page[key].val.t = "str"
    /\ \A key \in {"relatedPages", "filePaths"} :
           e.page[key].has /\ e.page[key].val.t = "list"

WellFormedData(d) == \A k \in 1..Len(d) : WellFormedEntry(d[k])

\* The positions of the headings of a file, in order.
RECURSIVE HeadingsFrom(_, _)
HeadingsFrom(units, i) ==
    IF i > Len(units) THEN <<>>
    ELSE (IF IsHeading(units[i]) THEN <<i>> ELSE <<>>) \o HeadingsFrom(units, i + 1)

\* C9: a call given N well-formed pages that ends with the success logged has
\* written N sections, in the order of the mapping: the k-th heading is "# " and
\* the title of the k-th entry, the string after it is len(title) + 2 dashes, the
\* one after that names the id of the k-th entry, every section ends with a rule,
\* and nothing of what the file held before is in it.
C9_SectionsInOrder ==
    (Done(1) /\ logged[1] = SuccessLog /\ WellFormedData(data[1])) =>
        LET f == FileOf(1)
            hs == HeadingsFrom(f, 1)
        IN /\ Len(hs) = Len(data[1])
           /\ Count(f, IsRule) = Len(data[1])
           /\ \A k \in 1..Len(hs) :
               LET title == data[1][k].page.title.val.v
               IN /\ f[hs[k]] = <<"#", " ">> \o title \o <<"\n">>
                  /\ f[hs[k] + 1] = Dashes(Len(title) + 2) \o <<"\n", "\n">>
                  /\ f[hs[k] + 2] = <<"**ID:** ">> \o data[1][k].page_id \o <<"\n">>
                  /\ IsRule(f[IF k < Len(hs) THEN hs[k + 1] - 1 ELSE Len(f)])
           /\ \A i \in 1..Len(f) : \A j \in 1..Len(OldFile.units) : f[i] # OldFile.units[j]

\* A call given two well-formed pages with titles of different lengths has
\* overwritten an existing file and logged its success.
C9_Witness ==
    /\ Done(1)
    /\ logged[1] = SuccessLog
    /\ WellFormedData(data[1])
    /\ Len(data[1]) = 2
    /\ Len(data[1][1].page.title.val.v) # Len(data[1][2].page.title.val.v)
    /\ discarded[1] = OldFile.units
    /\ FileOf(1) # <<>>

\* The report a call writes when it runs alone and nothing fails.
ReportAlone(d) ==
    Flatten([k \in 1..Len(d) |-> PageWrites(d[k].page_id, d[k].page).units])

\* C10 as stated: once two calls given different mappings are over, the file of
\* each call that logged its success holds the report the call writes when it
\* runs alone.
C10_ReportsIndependent ==
    (Done(1) /\ Done(2) /\ data[1] # data[2]) =>
        \A c \in Calls : logged[c] = SuccessLog => FileOf(c) = ReportAlone(data[c])

\* C10 amended: once two calls given different mappings and different file names
\* are over, the file of each call that logged its success holds the report the
\* call writes when it runs alone.
C10_DistinctFilesIndependent ==
    (Done(1) /\ Done(2) /\ data[1] # data[2] /\ filename[1] # filename[2]) =>
        \A c \in Calls : logged[c] = SuccessLog => FileOf(c) = ReportAlone(data[c])

\* Two calls with different file names have both logged their success, each file
\* holding a report of several sections.
C10_Witness ==
    /\ Done(1) /\ Done(2)
    /\ filename[1] # filename[2]
    /\ logged[1] = SuccessLog /\ logged[2] = SuccessLog
    /\ Len(data[1]) = 2 /\ Len(data[2]) = 2
    /\ FileOf(1) # <<>> /\ FileOf(2) # <<>>

\* C12: a call has logged its success only when the loop is past the last entry
\* of the mapping, nothing is left in the buffer, the file object is closed and
\* the file holds the section of every entry; a call that ended with an
\* exception, or before the last entry, has logged the error and not the
\* success, and its file object is not open; nothing is logged while the file
\* object is open.
C12_SuccessAfterClose ==
    \A c \in Calls :
        /\ logged[c] = SuccessLog =>
            /\ Done(c)
            /\ exc[c] = ""
            /\ idx[c] = Len(data[c]) + 1
            /\ buf[c] = <<>>
            /\ handle[c] = "closed"
            /\ FileOf(c) = ReportAlone(data[c])
        /\ (Done(c) /\ (exc[c] # "" \/ idx[c] <= Len(data[c]))) =>
            /\ logged[c] = ErrorLog
            /\ handle[c] # "open"
        /\ handle[c] = "open" => logged[c] = ""

\* A call of two entries stopped at the second one, after the section of the
\* first and a part of the second reached the file: the file object is closed
\* and the error is logged.
C12_Witness ==
    /\ Done(1)
    /\ Len(data[1]) = 2
    /\ idx[1] = 2
    /\ exc[1] # ""
    /\ handle[1] = "closed"
    /\ logged[1] = ErrorLog
    /\ Len(FileOf(1)) > Len(PageWrites(data[1][1].page_id, data[1][1].page).units)
    /\ FileOf(1) # ReportAlone(data[1])


(***************************************************************************)
(* Claims about export_wiki_python.                                        *)
(***************************************************************************)
\* The failures the export meets: an error status, a network failure, a file
\* failure.
ExportFailures ==
    {"Exception", "ClientError", "TimeoutError", "ClientPayloadError", "OSError",
     "IsADirectoryError"}

\* The file at an absolute path.
BlobAt(path) == downloads[CHOOSE p \in SavePaths : AbsPath(p) = path]

\* C11: a call that returned has returned (None, file_path) or (error_message,
\* None), one of the two being None and the other a string; it has returned
\* (None, file_path) only when the API answered with an ok status and the file
\* at file_path holds the body of the answer; empty arguments, an error status,
\* a network failure and a file failure are each returned as (error_message,
\* None), and nothing but a cancellation leaves the call as an exception.
C11_TupleShape ==
    /\ epc = "returned" =>
        /\ result.returned
        /\ \/ result.error = NoneValue /\ result.path.t = "str"
           \/ result.error.t = "str" /\ result.path = NoneValue
    /\ (epc = "returned" /\ result.error = NoneValue) =>
        /\ api_response \in Responses
        /\ Ok(api_response)
        /\ result.path.v \in {AbsPath(p) : p \in SavePaths}
        /\ BlobAt(result.path.v) = [exists |-> TRUE, bytes |-> api_response.body]
    /\ (InputIsEmpty(wiki_structure, generated_pages) /\ epc # "validate") =>
        /\ epc = "returned"
        /\ result = [returned |-> TRUE, error |-> Str(NoContentMessage), path |-> NoneValue]
    /\ caught.kind \in ExportFailures =>
        /\ epc = "returned"
        /\ result = [returned |-> TRUE, error |-> Str(caught.msg), path |-> NoneValue]
    /\ (api_response \in Responses /\ ~Ok(api_response) /\ epc # "status") =>
        \/ caught.kind = "Exception" /\ epc = "returned"
        \/ caught.kind = "CancelledError"
    /\ epc = "raised" => caught.kind = "CancelledError" /\ ~result.returned

\* An export whose answer named the file a.md has returned (None, file_path), the
\* body of the answer being in that file.
C11_Witness ==
    /\ epc = "returned"
    /\ result.error = NoneValue
    /\ result.path.v = <<"/cwd", "/", "downloads", "/", "a.md">>
    /\ api_response.body # <<>>
    /\ BlobAt(result.path.v).bytes = api_response.body

====
